---- MODULE Spec2Model ----
(***************************************************************************)
(* Model of bitfocus/syso: the .rsrc resource section (package rsrc) and   *)
(* the COFF object file that contains sections (package coff).             *)
(*                                                                         *)
(* Objects reached through Go pointers live in heaps (sequences indexed    *)
(* from 1): dirs holds every *Directory (the root is dirs[1]), strs every  *)
(* resource string, des every *DataEntry.  Byte streams are sequences of   *)
(* integers in 0..255.                                                     *)
(***************************************************************************)
EXTENDS Integers, Sequences, FiniteSets, TLC

VARIABLES
    dirs, strs, des,        \* rsrc.Section.rootDir and the objects below it
    relocations,            \* rsrc.Section.relocations
    w,                      \* bytes the writer of the last call received
                            \* (empty when the last call had no writer)
    op, ret,                \* last Section operation and what it returned
    nAdds, addedIds, addedNames, addedKeys, distinctKeys,
                            \* history of the Add calls made so far
    nFreezes,               \* freezes since the last Add (counted up to 2)
    arch, machineType,      \* coff.File.arch, coff.File.machineType
    sections,               \* coff.File.sections
    symbolsOffset,          \* coff.File.symbolsOffset
    strings, stringTable,   \* coff.File.strings, coff.File.stringTable
    stringTableSize,        \* coff.File.stringTableSize
    fw, fwLog,              \* bytes the writer of File.WriteTo received last,
                            \* and the calls it received them in
    fwSections, fwType,     \* section list and type code fw was written with
    fwPrevType,             \* type code of the output before fw when that was
                            \* written for the same section list, else 0
    inserted,               \* names AddSection accepted, in order
    fop, farg, fret         \* last File operation, its argument, its result

rsrcVars == <<dirs, strs, des, relocations, w, op, ret,
              nAdds, addedIds, addedNames, addedKeys, distinctKeys, nFreezes>>
coffVars == <<arch, machineType, sections, symbolsOffset, strings,
              stringTable, stringTableSize, fw, fwLog, fwSections, fwType,
              fwPrevType, inserted, fop, farg, fret>>
vars == <<rsrcVars, coffVars>>

----------------------------------------------------------------------------
(* Bounds of the model *)

MaxAdds == 2
MaxSections == 3

----------------------------------------------------------------------------
(* Basic encodings *)

Nil == 0          \* nil pointer (heap indices start at 1)
NoId == -1        \* id *int is nil
NoName == <<>>    \* name *string is nil

U16(x) == x % 65536

\* binary.Write with binary.LittleEndian of an unsigned integer of n bytes
RECURSIVE LE(_, _)
LE(v, n) == IF n = 0 THEN <<>> ELSE <<v % 256>> \o LE(v \div 256, n - 1)

LE16(v) == LE(U16(v), 2)
\* uint32 values of the model stay below 2^31, where uint32 arithmetic is exact
LE32(v) == LE(v, 4)

\* value of a little-endian field read back from a byte stream
RECURSIVE FromLE(_)
FromLE(b) == IF b = <<>> THEN 0 ELSE Head(b) + 256 * FromLE(Tail(b))

RECURSIVE Concat(_)
Concat(ss) == IF ss = <<>> THEN <<>> ELSE Head(ss) \o Concat(Tail(ss))

RECURSIVE Sum(_)
Sum(ns) == IF ns = <<>> THEN 0 ELSE Head(ns) + Sum(Tail(ns))

SetMax(S) == CHOOSE x \in S : \A y \in S : y <= x

\* utf16.Encode of a sequence of runes
RECURSIVE utf16Encode(_)
utf16Encode(runes) ==
    IF runes = <<>> THEN <<>>
    ELSE LET r == Head(runes)
             u == IF r >= 65536 /\ r <= 1114111
                    THEN << 55296 + (((r - 65536) \div 1024) % 1024),
                            56320 + ((r - 65536) % 1024) >>
                  ELSE IF r < 0 \/ r > 1114111 \/ (r >= 55296 /\ r <= 57343)
                    THEN << 65533 >>
                  ELSE << r >>
         IN u \o utf16Encode(Tail(runes))

----------------------------------------------------------------------------
(* package rsrc: record sizes and inputs *)

SizeRawDirectory == 8
SizeRawDirectoryEntry == 8
SizeRawDataEntry == 8
enUSLanguage == 1033

Types == {3, 14}
Ids == {1, 2}
Names == { <<97>>, <<128512, 98>> }       \* "a"; U+1F600 followed by "b"
Blobs == { <<170>>, <<1, 2, 3>> }

NewDirectory(characteristics) ==
    [offset |-> 0, characteristics |-> characteristics, strings |-> <<>>,
     nameEntries |-> <<>>, idEntries |-> <<>>]

\* Directory.entries: the name-keyed entries, then the id-keyed ones
entries(dir) == dir.nameEntries \o dir.idEntries

\* Directory.subdirectories: the directories the entries reference
targets(es, field) ==
    SelectSeq([k \in 1..Len(es) |-> es[k][field]], LAMBDA x : x # Nil)
subdirectories(dir) == targets(entries(dir), "subdirectory")

\* Directory.dataEntries: the data entries the entries reference
dataEntries(dir) == targets(entries(dir), "dataEntry")

\* Directory.walk: the order in which the callback sees the directories
RECURSIVE walkFrom(_, _)
RECURSIVE walkAll(_, _)
walkFrom(D, d) == <<d>> \o walkAll(D, subdirectories(D[d]))
walkAll(D, ds) == IF ds = <<>> THEN <<>>
                  ELSE walkFrom(D, Head(ds)) \o walkAll(D, Tail(ds))

walk(D) == walkFrom(D, 1)

\* Directory.addSubdirectory on directory d of heap state S
addSubdirectory(S, d, name, id, characteristics) ==
    LET nd == Len(S.dirs) + 1
        ns == Len(S.strs) + 1
        e  == [offset |-> 0, name |-> IF name # NoName THEN ns ELSE Nil,
               id |-> IF name # NoName THEN NoId ELSE id,
               subdirectory |-> nd, dataEntry |-> Nil]
        dir2 == IF name # NoName
                  THEN [S.dirs[d] EXCEPT !.nameEntries = Append(@, e),
                                         !.strings = Append(@, ns)]
                  ELSE [S.dirs[d] EXCEPT !.idEntries = Append(@, e)]
    IN [S EXCEPT !.dirs = Append([@ EXCEPT ![d] = dir2],
                                 NewDirectory(characteristics)),
                 !.strs = IF name # NoName
                            THEN Append(@, [string |-> name, offset |-> 0])
                            ELSE @,
                 !.subdir = nd]

\* Directory.addData on directory d of heap state S (id-keyed)
addData(S, d, id, blob) ==
    LET ne == Len(S.des) + 1
        e  == [offset |-> 0, name |-> Nil, id |-> id,
               subdirectory |-> Nil, dataEntry |-> ne]
    IN [S EXCEPT !.dirs[d].idEntries = Append(@, e),
                 !.des = Append(@, [offset |-> 0,
                                    data |-> [offset |-> 0, blob |-> blob]]),
                 !.d = ne]

\* variant: the existing Type entries are not searched
typeMatchesNone(S, typ) == {}

\* the root's id entries whose id is typ
typeMatches(S, typ) ==
    { k \in 1..Len(S.dirs[1].idEntries) : S.dirs[1].idEntries[k].id = typ }

\* Section.addResource; exactly one of id, name is given
addResource(S, typ, id, name, blob) ==
    LET m  == typeMatches(S, typ)
        S0 == [dirs |-> S.dirs, strs |-> S.strs, des |-> S.des,
               subdir |-> Nil, d |-> Nil, err |-> "nil"]
    IN IF \E k \in m : S.dirs[1].idEntries[k].subdirectory = Nil
         THEN [S0 EXCEPT !.err = "subdirectory should exist"]
       ELSE
         LET S1 == IF m = {} THEN addSubdirectory(S0, 1, NoName, typ, 0)
                   ELSE [S0 EXCEPT !.subdir =
                            S.dirs[1].idEntries[SetMax(m)].subdirectory]
             S2 == IF id # NoId
                     THEN addSubdirectory(S1, S1.subdir, NoName, id, 0)
                     ELSE addSubdirectory(S1, S1.subdir, name, NoId, 0)
         IN addData(S2, S2.subdir, enUSLanguage, blob)

\* variant: gives up after the first Type directory
ResourceIDExistsFirst(D, id) ==
    \E k \in 1..Len(D[1].idEntries) :
        /\ k = 1
        /\ D[1].idEntries[k].subdirectory # Nil
        /\ \E j \in 1..Len(D[D[1].idEntries[k].subdirectory].idEntries) :
              D[D[1].idEntries[k].subdirectory].idEntries[j].id = id

\* Section.ResourceIDExists
ResourceIDExists(D, id) ==
    \E k \in 1..Len(D[1].idEntries) :
        /\ D[1].idEntries[k].subdirectory # Nil
        /\ \E j \in 1..Len(D[D[1].idEntries[k].subdirectory].idEntries) :
              D[D[1].idEntries[k].subdirectory].idEntries[j].id = id

\* Section.ResourceNameExists
ResourceNameExists(D, St, name) ==
    \E k \in 1..Len(D[1].idEntries) :
        /\ D[1].idEntries[k].subdirectory # Nil
        /\ \E j \in 1..Len(D[D[1].idEntries[k].subdirectory].nameEntries) :
              St[D[D[1].idEntries[k].subdirectory].nameEntries[j].name].string
                 = name

----------------------------------------------------------------------------
(* Section.freeze: four walks sharing one running offset *)

\* first walk: directory headers and their entries
RECURSIVE freezeDirectories(_, _, _)
freezeDirectories(D, order, offset) ==
    IF order = <<>> THEN [dirs |-> D, offset |-> offset]
    ELSE LET d    == Head(order)
             nn   == Len(D[d].nameEntries)
             ni   == Len(D[d].idEntries)
             base == offset + SizeRawDirectory
             at(k) == base + (k - 1) * SizeRawDirectoryEntry
             dir2 == [D[d] EXCEPT
                        !.offset = offset,
                        !.nameEntries =
                            [k \in 1..nn |-> [@[k] EXCEPT !.offset = at(k)]],
                        !.idEntries =
                            [k \in 1..ni |-> [@[k] EXCEPT !.offset = at(nn + k)]]]
         IN freezeDirectories([D EXCEPT ![d] = dir2], Tail(order), at(nn + ni + 1))

\* variant: counts the runes of the string, not its UTF-16 code units
stringSizeRunes(str) == 2 + 2 * Len(str)

\* bytes one resource string is counted for in the second walk
stringSize(str) == 2 + 2 * Len(utf16Encode(str))

\* second walk: the strings of every directory; ids is dir.strings in walk order
RECURSIVE freezeStrings(_, _, _)
freezeStrings(St, ids, offset) ==
    IF ids = <<>> THEN [strs |-> St, offset |-> offset]
    ELSE freezeStrings([St EXCEPT ![Head(ids)].offset = offset], Tail(ids),
                       offset + stringSize(St[Head(ids)].string))

\* variant: takes the relocation's address after advancing the offset
RECURSIVE freezeDataEntriesLate(_, _, _, _)
freezeDataEntriesLate(E, ids, relocs, offset) ==
    IF ids = <<>> THEN [des |-> E, relocations |-> relocs, offset |-> offset]
    ELSE freezeDataEntriesLate([E EXCEPT ![Head(ids)].offset = offset], Tail(ids),
                               Append(relocs, [va |-> offset + SizeRawDataEntry]),
                               offset + SizeRawDataEntry)

\* third walk: data entry descriptors, one relocation each
RECURSIVE freezeDataEntries(_, _, _, _)
freezeDataEntries(E, ids, relocs, offset) ==
    IF ids = <<>> THEN [des |-> E, relocations |-> relocs, offset |-> offset]
    ELSE freezeDataEntries([E EXCEPT ![Head(ids)].offset = offset], Tail(ids),
                           Append(relocs, [va |-> offset]),
                           offset + SizeRawDataEntry)

\* fourth walk: the payloads
RECURSIVE freezeDatas(_, _, _)
freezeDatas(E, ids, offset) ==
    IF ids = <<>> THEN [des |-> E, offset |-> offset]
    ELSE freezeDatas([E EXCEPT ![Head(ids)].data.offset = offset], Tail(ids),
                     offset + Len(E[Head(ids)].data.blob))

\* dir.strings of every directory, in walk order
stringsIn(D, order) == Concat([k \in 1..Len(order) |-> D[order[k]].strings])
walkStrings(D) == stringsIn(D, walk(D))

\* dir.dataEntries() of every directory, in walk order
dataEntriesIn(D, order) ==
    Concat([k \in 1..Len(order) |-> dataEntries(D[order[k]])])
walkDataEntries(D) == dataEntriesIn(D, walk(D))

\* variant: the list of the previous freeze is kept
keptRelocations(relocs) == relocs

\* what s.relocations holds when the walks start
initialRelocations(relocs) == <<>>

\* Section.freeze on S = [dirs, strs, des, relocations]
freeze(S) ==
    LET p1 == freezeDirectories(S.dirs, walk(S.dirs), 0)
        p2 == freezeStrings(S.strs, walkStrings(p1.dirs), p1.offset)
        eids == walkDataEntries(p1.dirs)
        p3 == freezeDataEntries(S.des, eids,
                                initialRelocations(S.relocations), p2.offset)
        p4 == freezeDatas(p3.des, eids, p3.offset)
    IN [dirs |-> p1.dirs, strs |-> p2.strs, des |-> p4.des,
        relocations |-> p3.relocations, offset |-> p4.offset]

----------------------------------------------------------------------------
(* Section.WriteTo: the values handed to the writer, one element per call *)

\* b | 0x80000000 on the four bytes of a little-endian uint32
HighBit(b) == [b EXCEPT ![4] = IF @ < 128 THEN @ + 128 ELSE @]

writeDirectoryEntry(S, e) ==
    (IF e.name # Nil THEN HighBit(LE32(S.strs[e.name].offset)) ELSE LE32(e.id))
    \o (IF e.dataEntry # Nil THEN LE32(S.des[e.dataEntry].offset)
        ELSE HighBit(LE32(S.dirs[e.subdirectory].offset)))

writeDirectoryEntries(S, es) ==
    [k \in 1..Len(es) |-> writeDirectoryEntry(S, es[k])]

writeDirectory(S, dir) ==
    <<LE32(dir.characteristics) \o LE16(Len(dir.nameEntries))
                                \o LE16(Len(dir.idEntries))>>
    \o writeDirectoryEntries(S, entries(dir))

\* u is the UTF-16 encoding of a string: its length, then its code units
writeUTF16(u) == << LE16(Len(u)), Concat([k \in 1..Len(u) |-> LE16(u[k])]) >>

writeString(str) == writeUTF16(utf16Encode(str))

writeDataEntry(e) == LE32(e.data.offset) \o LE32(Len(e.data.blob))

\* S is the frozen section
writeWalks(S, order, sids, eids) ==
    Concat([k \in 1..Len(order) |-> writeDirectory(S, S.dirs[order[k]])])
    \o Concat([k \in 1..Len(sids) |-> writeString(S.strs[sids[k]].string)])
    \o [k \in 1..Len(eids) |-> writeDataEntry(S.des[eids[k]])]
    \o [k \in 1..Len(eids) |-> S.des[eids[k]].data.blob]

writeChunks(S) ==
    writeWalks(S, walk(S.dirs), walkStrings(S.dirs), walkDataEntries(S.dirs))

\* the counter WriteTo returns: the sum of the n of every write
written(chunks) == Sum([k \in 1..Len(chunks) |-> Len(chunks[k])])

----------------------------------------------------------------------------
(* Operations of rsrc.Section *)

Sec == [dirs |-> dirs, strs |-> strs, des |-> des, relocations |-> relocations]

Add(typ, id, name, blob) ==
    LET r == addResource(Sec, typ, id, name, blob)
    IN /\ nAdds < MaxAdds
       /\ dirs' = r.dirs /\ strs' = r.strs /\ des' = r.des
       /\ ret' = [err |-> r.err]
       /\ nAdds' = IF r.err = "nil" THEN nAdds + 1 ELSE nAdds
       /\ addedKeys' = addedKeys \cup {<<typ, id, name>>}
       /\ distinctKeys' = (distinctKeys /\ <<typ, id, name>> \notin addedKeys)
       /\ w' = <<>>
       /\ nFreezes' = 0
       /\ UNCHANGED relocations

AddResourceByID ==
    \E typ \in Types, id \in Ids, blob \in Blobs :
        /\ Add(typ, id, NoName, blob)
        /\ op' = "AddResourceByID"
        /\ addedIds' = IF ret'.err = "nil" THEN addedIds \cup {id} ELSE addedIds
        /\ UNCHANGED <<addedNames, coffVars>>

AddResourceByName ==
    \E typ \in Types, name \in Names, blob \in Blobs :
        /\ Add(typ, NoId, name, blob)
        /\ op' = "AddResourceByName"
        /\ addedNames' = addedNames \cup {name}
        /\ UNCHANGED <<addedIds, coffVars>>

Frozen(f) ==
    /\ dirs' = f.dirs /\ strs' = f.strs /\ des' = f.des
    /\ relocations' = f.relocations
    /\ nFreezes' = IF nFreezes < 2 THEN nFreezes + 1 ELSE nFreezes
    /\ UNCHANGED <<nAdds, addedIds, addedNames, addedKeys, distinctKeys, coffVars>>

Size ==
    LET f == freeze(Sec)
    IN /\ Frozen(f)
       /\ op' = "Size" /\ ret' = [size |-> f.offset]
       /\ w' = <<>>

Relocations ==
    LET f == freeze(Sec)
    IN /\ Frozen(f)
       /\ op' = "Relocations" /\ ret' = [relocations |-> f.relocations]
       /\ w' = <<>>

WriteTo ==
    LET f == freeze(Sec)
    IN /\ Frozen(f)
       /\ op' = "WriteTo"
       /\ w' = Concat(writeChunks(f))
       /\ ret' = [n |-> written(writeChunks(f)), err |-> "nil"]

IDExists ==
    \E id \in Ids :
        /\ op' = "ResourceIDExists"
        /\ ret' = [id |-> id, found |-> ResourceIDExists(dirs, id)]
        /\ w' = <<>>
        /\ UNCHANGED <<dirs, strs, des, relocations, nAdds, addedIds,
                       addedNames, addedKeys, distinctKeys, nFreezes, coffVars>>

NameExists ==
    \E name \in Names :
        /\ op' = "ResourceNameExists"
        /\ ret' = [name |-> name, found |-> ResourceNameExists(dirs, strs, name)]
        /\ w' = <<>>
        /\ UNCHANGED <<dirs, strs, des, relocations, nAdds, addedIds,
                       addedNames, addedKeys, distinctKeys, nFreezes, coffVars>>

----------------------------------------------------------------------------
(* package coff: record sizes, type codes and the sections offered to AddSection *)

SizeRawFileHeader == 20
SizeRawSectionHeader == 26
SizeRawRelocation == 10
SizeRawSymbol == 18

IMAGE_REL_AMD64_ADDR32NB == 3
IMAGE_REL_I386_DIR32NB == 7
IMAGE_REL_ARM64_ADDR32NB == 2

Archs == {"amd64", "arm64", "i386", "mips"}

\* Section.Name of package rsrc: ".rsrc"
RsrcName == <<46, 114, 115, 114, 99>>

\* a rsrc.Section holding one resource, as the coff.Section the file sees
RsrcSection ==
    LET r == addResource([dirs |-> <<NewDirectory(0)>>, strs |-> <<>>,
                          des |-> <<>>], 3, 1, NoName, <<1, 2, 3>>)
        f == freeze([dirs |-> r.dirs, strs |-> r.strs, des |-> r.des,
                     relocations |-> <<>>])
    IN [name |-> RsrcName, size |-> f.offset, relocs |-> f.relocations,
        body |-> Concat(writeChunks(f))]

\* other implementations of coff.Section: Size() is the length of what WriteTo
\* writes
PlainSection(name, body, vas) ==
    [name |-> name, size |-> Len(body),
     relocs |-> [k \in 1..Len(vas) |-> [va |-> vas[k]]], body |-> body]

LongName1 == <<108, 111, 110, 103, 110, 97, 109, 101, 49>>            \* "longname1"
DebugInfo == <<46, 100, 101, 98, 117, 103, 95, 105, 110, 102, 111>>  \* ".debug_info"
TextBss   == <<46, 116, 101, 120, 116, 98, 115, 115>>                 \* ".textbss"

SectionObjects ==
    { RsrcSection,
      PlainSection(TextBss, <<144>>, <<0>>),
      PlainSection(LongName1, <<>>, <<>>),
      PlainSection(LongName1, <<9, 9>>, <<1>>),
      PlainSection(DebugInfo, <<1, 2, 3, 4>>, <<0, 2>>) }

----------------------------------------------------------------------------
(* coff.File *)

File == [arch |-> arch, machineType |-> machineType, sections |-> sections,
         symbolsOffset |-> symbolsOffset, strings |-> strings,
         stringTable |-> stringTable, stringTableSize |-> stringTableSize]

\* variant: only the section added last is compared
sectionExistsLast(secs, name) ==
    secs # <<>> /\ secs[Len(secs)].Section.name = name

\* the loop of AddSection over f.sections
sectionExists(secs, name) ==
    \E k \in 1..Len(secs) : secs[k].Section.name = name

\* File.SetArch
setArch(F, architechture) ==
    IF architechture = "amd64"
      THEN [F EXCEPT !.arch = "amd64", !.machineType = IMAGE_REL_AMD64_ADDR32NB]
    ELSE IF architechture = "arm64"
      THEN [F EXCEPT !.arch = "arm64", !.machineType = IMAGE_REL_ARM64_ADDR32NB]
    ELSE IF architechture = "i386"
      THEN [F EXCEPT !.arch = "i386", !.machineType = IMAGE_REL_I386_DIR32NB]
    ELSE F

setArchErr(architechture) ==
    IF architechture \in {"amd64", "arm64", "i386"} THEN "nil"
    ELSE "invalid architechture"

\* File.AddSection after the duplicate check
addSection(F, s) ==
    LET F1 == [F EXCEPT !.sections =
                  Append(@, [Section |-> s, dataOffset |-> 0,
                             relocationsOffset |-> 0])]
    IN IF Len(s.name) > 8 /\ s.name \notin DOMAIN F.stringTable
         THEN [F1 EXCEPT !.strings = Append(@, [b |-> s.name \o <<0>>,
                                                offset |-> 0]),
                         !.stringTable = (s.name :> (Len(F.strings) + 1)) @@ @]
         ELSE F1

\* variant: one relocation record is reserved per section
relocationsSizeOne(s) == SizeRawRelocation

\* bytes File.freeze reserves for the relocation records of section s
relocationsSize(s) == SizeRawRelocation * Len(s.Section.relocs)

RECURSIVE freezeSectionData(_, _, _)
freezeSectionData(secs, i, offset) ==
    IF i > Len(secs) THEN [sections |-> secs, offset |-> offset]
    ELSE freezeSectionData([secs EXCEPT ![i].dataOffset = offset], i + 1,
                           offset + secs[i].Section.size)

RECURSIVE freezeSectionRelocations(_, _, _)
freezeSectionRelocations(secs, i, offset) ==
    IF i > Len(secs) THEN [sections |-> secs, offset |-> offset]
    ELSE freezeSectionRelocations([secs EXCEPT ![i].relocationsOffset = offset],
                                  i + 1, offset + relocationsSize(secs[i]))

RECURSIVE freezeFileStrings(_, _, _)
freezeFileStrings(ss, i, offset) ==
    IF i > Len(ss) THEN [strings |-> ss, offset |-> offset]
    ELSE freezeFileStrings([ss EXCEPT ![i].offset = offset], i + 1,
                           offset + Len(ss[i].b))

\* File.freeze
fileFreeze(F) ==
    LET o1 == SizeRawFileHeader + SizeRawSectionHeader * Len(F.sections)
        p1 == freezeSectionData(F.sections, 1, o1)
        p2 == freezeSectionRelocations(p1.sections, 1, p1.offset)
        so == p2.offset + SizeRawSymbol * Len(F.sections) + 4
        p3 == freezeFileStrings(F.strings, 1, so)
    IN [F EXCEPT !.sections = p2.sections,
                 !.symbolsOffset = p2.offset,
                 !.strings = p3.strings,
                 !.stringTableSize = p3.offset - so + 4]

\* copy(name[:], b) into a zeroed [8]byte
copy8(b) == [k \in 1..8 |-> IF k <= Len(b) THEN b[k] ELSE 0]

\* fmt.Sprintf("%d", n) for n >= 0, as bytes
RECURSIVE Decimal(_)
Decimal(n) == IF n < 10 THEN <<48 + n>>
              ELSE Decimal(n \div 10) \o <<48 + (n % 10)>>

\* variant: the machine field follows the architecture
fileMachineByArch(F) ==
    IF F.arch = "amd64" THEN 34404 ELSE IF F.arch = "arm64" THEN 43620 ELSE 332

\* the Machine field of the file header: IMAGE_FILE_MACHINE_I386
fileMachine(F) == 332

writeFileHeader(F) ==
    LE16(fileMachine(F)) \o LE16(Len(F.sections)) \o LE32(0)
    \o LE32(F.symbolsOffset) \o LE32(Len(F.sections)) \o LE16(0) \o LE16(256)

\* the name field of the section header of s
sectionHeaderName(F, s) ==
    IF Len(s.Section.name) > 8
      THEN copy8(<<47>> \o Decimal(F.strings[F.stringTable[s.Section.name]].offset))
      ELSE copy8(s.Section.name)

writeSectionHeader(F, s) ==
    sectionHeaderName(F, s)
    \o LE32(s.Section.size) \o LE32(s.dataOffset) \o LE32(s.relocationsOffset)
    \o LE16(Len(s.Section.relocs)) \o LE32(1073741888)

writeRelocation(F, i, r) == LE32(r.va) \o LE32(i - 1) \o LE16(F.machineType)

\* the name field of the symbol of s
symbolName(F, s) ==
    IF Len(s.Section.name) > 8
      THEN <<0, 0, 0, 0>> \o LE32(F.strings[F.stringTable[s.Section.name]].offset)
      ELSE copy8(s.Section.name)

writeSymbol(F, i, s) ==
    symbolName(F, s) \o LE32(0) \o LE16(i) \o LE16(0) \o <<3, 0>>

\* File.WriteTo after f.freeze(): the calls made on the writer, in order
fileWrites(F) ==
    LET n == Len(F.sections)
    IN <<[kind |-> "fileHeader", i |-> 0, b |-> writeFileHeader(F)]>>
       \o [i \in 1..n |-> [kind |-> "sectionHeader", i |-> i,
                           b |-> writeSectionHeader(F, F.sections[i])]]
       \o [i \in 1..n |-> [kind |-> "data", i |-> i,
                           b |-> F.sections[i].Section.body]]
       \o Concat([i \in 1..n |->
             [k \in 1..Len(F.sections[i].Section.relocs) |->
                 [kind |-> "relocation", i |-> i,
                  b |-> writeRelocation(F, i, F.sections[i].Section.relocs[k])]]])
       \o [i \in 1..n |-> [kind |-> "symbol", i |-> i,
                           b |-> writeSymbol(F, i, F.sections[i])]]
       \o <<[kind |-> "stringTableSize", i |-> 0, b |-> LE32(F.stringTableSize)]>>
       \o [i \in 1..Len(F.strings) |-> [kind |-> "string", i |-> i,
                                        b |-> F.strings[i].b]]

\* the bytes the writer holds after the calls ws
writtenBytes(ws) == Concat([k \in 1..Len(ws) |-> ws[k].b])

\* the calls ws with the n each returned
writeLog(ws) ==
    [k \in 1..Len(ws) |-> [kind |-> ws[k].kind, i |-> ws[k].i, n |-> Len(ws[k].b)]]

\* the counter File.WriteTo returns: the sum of the n of every write
writtenCount(log) == Sum([k \in 1..Len(log) |-> log[k].n])

----------------------------------------------------------------------------
(* Operations of coff.File *)

SetFile(F) ==
    /\ arch' = F.arch /\ machineType' = F.machineType
    /\ sections' = F.sections /\ symbolsOffset' = F.symbolsOffset
    /\ strings' = F.strings /\ stringTable' = F.stringTable
    /\ stringTableSize' = F.stringTableSize

SectionObjs(secs) == [k \in 1..Len(secs) |-> secs[k].Section]

SetArch ==
    \E a \in Archs :
        /\ SetFile(setArch(File, a))
        /\ fop' = "SetArch" /\ farg' = [architechture |-> a]
        /\ fret' = [err |-> setArchErr(a)]
        /\ UNCHANGED <<fw, fwLog, fwSections, fwType, fwPrevType, inserted, rsrcVars>>

AddSection ==
    \E s \in SectionObjects :
        /\ fop' = "AddSection" /\ farg' = [s |-> s]
        /\ IF sectionExists(sections, s.name)
             THEN /\ fret' = [err |-> "ErrSectionExists"]
                  /\ UNCHANGED <<arch, machineType, sections, symbolsOffset,
                                 strings, stringTable, stringTableSize, inserted>>
             ELSE /\ Len(sections) < MaxSections
                  /\ SetFile(addSection(File, s))
                  /\ inserted' = Append(inserted, s.name)
                  /\ fret' = [err |-> "nil"]
        /\ UNCHANGED <<fw, fwLog, fwSections, fwType, fwPrevType, rsrcVars>>

FileWriteTo ==
    LET F == fileFreeze(File)
        ws == fileWrites(F)
    IN /\ SetFile(F)
       /\ fop' = "WriteTo" /\ farg' = [w |-> 0]
       /\ fw' = writtenBytes(ws)
       /\ fwLog' = writeLog(ws)
       /\ fret' = [n |-> writtenCount(writeLog(ws)), err |-> "nil"]
       /\ fwSections' = SectionObjs(F.sections)
       /\ fwType' = F.machineType
       /\ fwPrevType' = IF fwLog # <<>> /\ fwSections = SectionObjs(F.sections)
                          THEN fwType ELSE 0
       /\ UNCHANGED <<inserted, rsrcVars>>

----------------------------------------------------------------------------
(* Specifications: the resource section, and the COFF file *)

InitRsrc ==
    /\ dirs = <<NewDirectory(0)>> /\ strs = <<>> /\ des = <<>>
    /\ relocations = <<>>
    /\ w = <<>>
    /\ op = "New" /\ ret = [err |-> "nil"]
    /\ nAdds = 0 /\ addedIds = {} /\ addedNames = {} /\ addedKeys = {}
    /\ distinctKeys = TRUE
    /\ nFreezes = 0

InitCoff ==
    /\ arch = "amd64" /\ machineType = IMAGE_REL_I386_DIR32NB
    /\ sections = <<>>
    /\ symbolsOffset = 0
    /\ strings = <<>> /\ stringTable = <<>>
    /\ stringTableSize = 0
    /\ fw = <<>> /\ fwLog = <<>> /\ fwSections = <<>> /\ fwType = 0
    /\ fwPrevType = 0
    /\ inserted = <<>>
    /\ fop = "New" /\ farg = [none |-> 0] /\ fret = [err |-> "nil"]

Init == InitRsrc /\ InitCoff

Next ==
    \/ AddResourceByID
    \/ AddResourceByName
    \/ Size
    \/ Relocations
    \/ WriteTo
    \/ IDExists
    \/ NameExists

Spec == Init /\ [][Next]_vars

NextFile ==
    \/ SetArch
    \/ AddSection
    \/ FileWriteTo

SpecFile == Init /\ [][NextFile]_vars

----------------------------------------------------------------------------
(* Properties of the resource section *)

FreezeOps == {"Size", "Relocations", "WriteTo"}

\* C1: when the (type, key) pairs added so far are pairwise distinct, the
\* number of bytes WriteTo hands to the writer, the count it returns and the
\* value Size() returns in the same state are all equal.
SizeEqualsWritten ==
    /\ (op = "WriteTo" /\ distinctKeys) =>
           /\ Len(w) = freeze(Sec).offset
           /\ ret.n = Len(w) /\ ret.err = "nil"
    /\ (op = "Size" /\ distinctKeys) =>
           ret.size = Len(Concat(writeChunks(freeze(Sec))))

SizeEqualsWrittenWitness ==
    /\ op = "WriteTo" /\ distinctKeys
    /\ nAdds >= 2 /\ addedIds # {} /\ <<128512, 98>> \in addedNames
    /\ Len(w) > 0

\* C5: a freeze (through Size, Relocations or WriteTo) made when the section
\* was frozen since the last Add changes no offset and no relocation; two
\* Size calls in a row return the same size, two Relocations calls the same
\* list, two WriteTo calls the same bytes.
FreezeIdempotent ==
    [][ (nFreezes >= 1 /\ op' \in FreezeOps) =>
            /\ dirs' = dirs /\ strs' = strs /\ des' = des
            /\ relocations' = relocations
            /\ (op = op' /\ op \in {"Size", "Relocations"} => ret' = ret)
            /\ (op = op' /\ op = "WriteTo" => w' = w /\ ret' = ret) ]_vars

FreezeIdempotentWitness ==
    /\ nFreezes = 2 /\ op = "Relocations"
    /\ Len(relocations) >= 2 /\ Len(strs) >= 1

\* C6: Relocations() returns one relocation per DataEntry of the tree, as many
\* as there were successful adds, and the k-th virtual address is the frozen
\* offset of the k-th data entry descriptor in walk order.
OneRelocationPerDataEntry ==
    op = "Relocations" =>
        LET eids == walkDataEntries(dirs)
            rs == ret.relocations
        IN /\ rs = relocations
           /\ Len(rs) = nAdds
           /\ Len(rs) = Len(des)
           /\ Len(eids) = Len(des)
           /\ \A k \in 1..Len(rs) : rs[k].va = des[eids[k]].offset

OneRelocationPerDataEntryWitness ==
    /\ op = "Relocations" /\ nAdds >= 2 /\ Len(ret.relocations) >= 2
    /\ ret.relocations[1].va # ret.relocations[2].va

\* C7: every id passed to a successful AddResourceByID is found by
\* ResourceIDExists in every later state, and ResourceNameExists finds no name
\* that was never passed to AddResourceByName.
ExistsAfterAdd ==
    /\ \A id \in addedIds : ResourceIDExists(dirs, id)
    /\ \A name \in Names \ addedNames : ~ResourceNameExists(dirs, strs, name)
    /\ (op = "ResourceIDExists" /\ ret.id \in addedIds) => ret.found
    /\ (op = "ResourceNameExists" /\ ret.name \notin addedNames) => ~ret.found

ExistsAfterAddWitness ==
    /\ op = "ResourceIDExists" /\ ret.id \in addedIds /\ ret.found
    /\ addedNames # {} /\ addedNames # Names
    /\ Len(dirs[1].idEntries) >= 2

\* keys (id or name) added under type typ
KeysOf(typ) == { key \in addedKeys : key[1] = typ }
AddedTypes == { key[1] : key \in addedKeys }

IsLanguageDirectory(dir) ==
    /\ dir.nameEntries = <<>> /\ Len(dir.idEntries) = 1
    /\ dir.idEntries[1].id = enUSLanguage
    /\ dir.idEntries[1].name = Nil
    /\ dir.idEntries[1].subdirectory = Nil
    /\ dir.idEntries[1].dataEntry \in 1..Len(des)

\* the Language-level directories, in walk order
LanguageDirectories ==
    SelectSeq(walk(dirs), LAMBDA d : dataEntries(dirs[d]) # <<>>)

\* C8: when the (type, key) pairs added so far are pairwise distinct, the root
\* holds exactly one id-keyed entry per type added, each referencing a Type
\* directory; a Type directory holds one subdirectory per key added under the
\* type, each a Language directory with the single entry 0x0409 pointing to a
\* DataEntry no other entry points to.
TreeShape ==
    distinctKeys =>
        LET root == dirs[1]
        IN /\ root.nameEntries = <<>>
           /\ Len(root.idEntries) = Cardinality(AddedTypes)
           /\ { root.idEntries[k].id : k \in 1..Len(root.idEntries) } = AddedTypes
           /\ \A k \in 1..Len(root.idEntries) :
                LET e == root.idEntries[k]
                    t == dirs[e.subdirectory]
                IN /\ e.subdirectory # Nil /\ e.dataEntry = Nil /\ e.name = Nil
                   /\ Len(entries(t)) = Cardinality(KeysOf(e.id))
                   /\ { <<e.id, t.idEntries[j].id, NoName>> :
                            j \in 1..Len(t.idEntries) }
                      \cup { <<e.id, NoId, strs[t.nameEntries[j].name].string>> :
                            j \in 1..Len(t.nameEntries) } = KeysOf(e.id)
                   /\ \A j \in 1..Len(entries(t)) :
                        /\ entries(t)[j].subdirectory # Nil
                        /\ entries(t)[j].dataEntry = Nil
                        /\ IsLanguageDirectory(dirs[entries(t)[j].subdirectory])
           /\ Len(LanguageDirectories) = Len(des)
           /\ \A i, j \in 1..Len(LanguageDirectories) :
                i # j => dirs[LanguageDirectories[i]].idEntries[1].dataEntry
                         # dirs[LanguageDirectories[j]].idEntries[1].dataEntry

TreeShapeWitness ==
    /\ distinctKeys /\ nAdds >= 2
    /\ Len(dirs[1].idEntries) = 1
    /\ Len(entries(dirs[dirs[1].idEntries[1].subdirectory])) >= 2

----------------------------------------------------------------------------
(* Reading a written COFF file back *)

\* the little-endian field of n bytes that follows the first at bytes of b
Field(b, at, n) == FromLE(SubSeq(b, at + 1, at + n))

NumberOfSections(b) == Field(b, 2, 2)
PointerToSymbolTable(b) == Field(b, 8, 4)
NumberOfSymbols(b) == Field(b, 12, 4)

HeaderAt(i) == SizeRawFileHeader + (i - 1) * SizeRawSectionHeader
HeaderName(b, i) == SubSeq(b, HeaderAt(i) + 1, HeaderAt(i) + 8)
SizeOfRawData(b, i) == Field(b, HeaderAt(i) + 8, 4)
PointerToRawData(b, i) == Field(b, HeaderAt(i) + 12, 4)
PointerToRelocations(b, i) == Field(b, HeaderAt(i) + 16, 4)
NumberOfRelocations(b, i) == Field(b, HeaderAt(i) + 20, 2)

\* the k-th relocation record (from 0) of section i
RelocationAt(b, i, k) == PointerToRelocations(b, i) + k * SizeRawRelocation
RelocationType(b, i, k) == Field(b, RelocationAt(b, i, k) + 8, 2)

\* every relocation record of the file, as <<section, number>>
RelocationRecords(b) ==
    { ik \in (1..NumberOfSections(b)) \X (0..3) :
          ik[2] < NumberOfRelocations(b, ik[1]) }

\* positions (from 1) of the bytes of the relocation type fields
RelocationTypeBytes(b) ==
    UNION { { RelocationAt(b, ik[1], ik[2]) + 9, RelocationAt(b, ik[1], ik[2]) + 10 } :
              ik \in RelocationRecords(b) }

Blank(b, at) == [p \in 1..Len(b) |-> IF p \in at THEN 0 ELSE b[p]]

\* the file with the relocation type fields blanked
WithoutRelocationTypes(b) == Blank(b, RelocationTypeBytes(b))

SymbolName(b, i) ==
    SubSeq(b, PointerToSymbolTable(b) + (i - 1) * SizeRawSymbol + 1,
              PointerToSymbolTable(b) + (i - 1) * SizeRawSymbol + 8)

\* the string table: its 4-byte size field and the strings after it
StringTableAt(b) == PointerToSymbolTable(b) + NumberOfSymbols(b) * SizeRawSymbol
StringTableOf(b) == SubSeq(b, StringTableAt(b) + 1, Len(b))

\* the number a name field "/<decimal>" holds; the field is zero-padded
RECURSIVE ParseDecimal(_, _)
ParseDecimal(digits, acc) ==
    IF digits = <<>> \/ Head(digits) \notin 48..57 THEN acc
    ELSE ParseDecimal(Tail(digits), 10 * acc + (Head(digits) - 48))

\* number of bytes the writer held when the first call (kind, i) was made
FirstCall(log, kind, i) ==
    CHOOSE k \in 1..Len(log) :
        /\ log[k].kind = kind /\ log[k].i = i
        /\ \A j \in 1..(k - 1) : ~(log[j].kind = kind /\ log[j].i = i)
Position(log, kind, i) ==
    Sum([j \in 1..(FirstCall(log, kind, i) - 1) |-> log[j].n])

StringBytes(log) ==
    Sum([k \in 1..Len(log) |-> IF log[k].kind = "string" THEN log[k].n ELSE 0])

\* the relocation type code of each architecture
ArchCode(a) ==
    IF a = "amd64" THEN IMAGE_REL_AMD64_ADDR32NB
    ELSE IF a = "arm64" THEN IMAGE_REL_ARM64_ADDR32NB
    ELSE IMAGE_REL_I386_DIR32NB

----------------------------------------------------------------------------
(* Properties of the COFF file *)

\* C2: in a written file, the header of every section whose name is longer
\* than 8 bytes holds "/" and the decimal offset, relative to the string
\* table, at which the string table holds the name followed by a null byte;
\* the symbol of the section holds the same offset in binary.
LongNameRoundTrips ==
    fop = "WriteTo" =>
        \A i \in 1..Len(sections) :
            Len(sections[i].Section.name) > 8 =>
                LET name  == sections[i].Section.name
                    field == HeaderName(fw, i)
                    off   == ParseDecimal(Tail(field), 0)
                    table == StringTableOf(fw)
                IN /\ field = copy8(<<47>> \o Decimal(off))
                   /\ off + Len(name) + 1 <= Len(table)
                   /\ SubSeq(table, off + 1, off + Len(name) + 1) = name \o <<0>>
                   /\ SymbolName(fw, i) = <<0, 0, 0, 0>> \o LE32(off)

\* C3: a file written again for the same sections, whatever SetArch calls
\* came in between, differs from the previous output in nothing but the type
\* fields of its relocation records.
ArchChangesOnlyType ==
    [][ (fop' = "WriteTo" /\ fwLog # <<>> /\ fwSections = SectionObjs(sections)) =>
            /\ Len(fw') = Len(fw)
            /\ RelocationTypeBytes(fw') = RelocationTypeBytes(fw)
            /\ WithoutRelocationTypes(fw') = WithoutRelocationTypes(fw) ]_vars

ArchChangesOnlyTypeWitness ==
    /\ fop = "WriteTo" /\ fwPrevType # 0 /\ fwPrevType # fwType
    /\ Cardinality(RelocationRecords(fw)) >= 2
    /\ \E i \in 1..Len(sections) : Len(sections[i].Section.name) > 8

\* C4: AddSection with the name of a held section returns ErrSectionExists and
\* changes neither the sections nor the string table; the held sections have
\* pairwise distinct names, are in insertion order, and every operation keeps
\* the sections held before it, in place.
DuplicateSectionRejected ==
    /\ [](/\ \A i, j \in 1..Len(sections) :
                i # j => sections[i].Section.name # sections[j].Section.name
          /\ [k \in 1..Len(sections) |-> sections[k].Section.name] = inserted)
    /\ [][ /\ (fop' = "AddSection" /\ \E k \in 1..Len(sections) :
                                         sections[k].Section.name = farg'.s.name) =>
                 /\ fret'.err = "ErrSectionExists"
                 /\ sections' = sections
                 /\ strings' = strings /\ stringTable' = stringTable
           /\ (fop' = "AddSection" /\ fret'.err = "nil") =>
                 SectionObjs(sections') = Append(SectionObjs(sections), farg'.s)
           /\ Len(sections') >= Len(sections)
           /\ SubSeq(SectionObjs(sections'), 1, Len(sections)) = SectionObjs(sections)
       ]_vars

DuplicateSectionRejectedWitness ==
    /\ fop = "AddSection" /\ fret.err = "ErrSectionExists"
    /\ Len(sections) >= 2 /\ Len(strings) >= 1
    /\ \A k \in 1..Len(sections) : sections[k].Section # farg.s
    /\ sections[1].Section.name # farg.s.name

\* C9: in a written file every recorded pointer is the number of bytes written
\* before the thing it points to: PointerToRawData before the section's data,
\* PointerToRelocations before its first relocation record, the header's
\* PointerToSymbolTable before the first symbol; the string table size field
\* is 4 plus the length of the strings after it; the count returned is the
\* number of bytes written and the final cursor of the layout.
PointersMatchPositions ==
    fop = "WriteTo" =>
        /\ NumberOfSections(fw) = Len(sections)
        /\ \A i \in 1..Len(sections) :
              /\ PointerToRawData(fw, i) = Position(fwLog, "data", i)
              /\ PointerToRawData(fw, i) = sections[i].dataOffset
              /\ PointerToRelocations(fw, i) = sections[i].relocationsOffset
              /\ NumberOfRelocations(fw, i) > 0 =>
                    PointerToRelocations(fw, i) = Position(fwLog, "relocation", i)
        /\ PointerToSymbolTable(fw) = symbolsOffset
        /\ Len(sections) > 0 =>
              PointerToSymbolTable(fw) = Position(fwLog, "symbol", 1)
        /\ StringTableAt(fw) = Position(fwLog, "stringTableSize", 0)
        /\ Field(fw, StringTableAt(fw), 4) = 4 + StringBytes(fwLog)
        /\ Field(fw, StringTableAt(fw), 4) = Len(StringTableOf(fw))
        /\ fret.err = "nil" /\ fret.n = Len(fw)
        /\ fret.n = symbolsOffset + SizeRawSymbol * Len(sections) + stringTableSize

PointersMatchPositionsWitness ==
    /\ fop = "WriteTo" /\ Len(sections) >= 2 /\ Len(strings) >= 1
    /\ \E i \in 1..Len(sections) : NumberOfRelocations(fw, i) = 2
    /\ \E i \in 1..Len(sections) : NumberOfRelocations(fw, i) = 0
    /\ sections[2].dataOffset > sections[1].dataOffset

\* C10: the type code of every relocation record of a written file is the
\* code of the architecture Arch() reports.
TypeCodeFollowsArch ==
    fop = "WriteTo" =>
        \A ik \in RelocationRecords(fw) :
            RelocationType(fw, ik[1], ik[2]) = ArchCode(arch)

====
